---- MODULE Spec2Model ----
(***************************************************************************)
(* Model of pgconf.py, the PostgreSQL 9.1 configuration generator.         *)
(*                                                                         *)
(* The script is a straight-line program: it reads five command-line       *)
(* arguments, rejects every version but 9.1, converts the memory argument  *)
(* to kilobytes and then prints eleven annotated settings in a fixed       *)
(* order.  The model follows the script statement group by statement       *)
(* group; an uncaught Python exception ends the run where it is raised.    *)
(*                                                                         *)
(* Conventions.                                                            *)
(*  - Text is a sequence of one-character strings, so that stripping,      *)
(*    lower-casing, suffix matching, number parsing and number printing    *)
(*    are computed character by character as the interpreter does.         *)
(*  - A Python float is an exact rational [n, d] in lowest terms.  The     *)
(*    script is run by Python 3 (true division for "/").  On the inputs    *)
(*    of this model the IEEE-754 results of the script coincide with the   *)
(*    exact ones (all multiplications by 1024 are exact and no quotient    *)
(*    lies within a rounding error of a multiple of 1024).                 *)
(***************************************************************************)
EXTENDS Integers, Sequences, FiniteSets, TLC

VARIABLES
    memory,             \* ARGUMENTS.memory, the text given with -m
    cpus,               \* CPU_COUNT
    connections,        \* CONNECTION_COUNT
    databases,          \* DATABASE_COUNT
    version,            \* POSTGRESQL_VERSION, the text given with -v
    pc,                 \* position of the interpreter in the script
    OPERATING_MEMORY,   \* memory in kB once line 172 has run
    SHARED_BUFFERS,     \* bound at line 181
    AUTOVACUUM_WORKERS, \* bound at line 255
    stdout,             \* what has been printed so far
    status,             \* process exit status, -1 while running
    call,               \* unit-converter harness: which function is applied
    arg,                \* unit-converter harness: its argument
    ret                 \* unit-converter harness: its result

vars == <<memory, cpus, connections, databases, version, pc,
          OPERATING_MEMORY, SHARED_BUFFERS, AUTOVACUUM_WORKERS,
          stdout, status, call, arg, ret>>

runVars == <<memory, cpus, connections, databases, version, pc,
             OPERATING_MEMORY, SHARED_BUFFERS, AUTOVACUUM_WORKERS,
             stdout, status>>

(***************************************************************************)
(* Bounds of the model.                                                    *)
(***************************************************************************)
MaxMemory == 5          \* memory numerals 0..MaxMemory in the program runs
MaxCpus == 2            \* -p ranges over 0..MaxCpus
MaxConnections == 1     \* -c ranges over 0..MaxConnections and the default
MaxDatabases == 3       \* -d ranges over 0..MaxDatabases
MaxPad == 1             \* white space before and after the version text
MaxIntPart == 4         \* integer part of the numerals given to Normalize
MaxCoef == 3            \* coefficient of a power of 1024 given to Denormalize
MaxRemainder == 2       \* remainders next to 0 and next to 1023

(***************************************************************************)
(* Exact rationals standing for Python floats.                             *)
(***************************************************************************)
Abs(x) == IF x < 0 THEN -x ELSE x

RECURSIVE GCD(_, _)
GCD(a, b) == IF b = 0 THEN a ELSE GCD(b, a % b)

\* floor(a / b) for b > 0
FloorDiv(a, b) == a \div b

Rat(n, d) ==
    LET g == GCD(Abs(n), d)
    IN  [n |-> n \div g, d |-> d \div g]

FromInt(i) == [n |-> i, d |-> 1]

\* A name that has not been bound yet.
Unbound == [n |-> 0, d |-> 0]

\* Factors are cancelled crosswise before multiplying, so that the
\* intermediate products stay as small as the result.
RatMul(a, b) ==
    LET g1 == GCD(Abs(a.n), b.d)
        g2 == GCD(Abs(b.n), a.d)
    IN  Rat((a.n \div g1) * (b.n \div g2), (a.d \div g2) * (b.d \div g1))

\* a / b with b # 0
RatDiv(a, b) ==
    IF b.n > 0 THEN RatMul(a, [n |-> b.d, d |-> b.n])
               ELSE RatMul(a, [n |-> -b.d, d |-> -b.n])

RatSub(a, b) ==
    LET g == GCD(a.d, b.d)
        l == (a.d \div g) * b.d
    IN  Rat(a.n * (l \div a.d) - b.n * (l \div b.d), l)

RatLess(a, b) ==
    LET g == GCD(a.d, b.d)
    IN  a.n * (b.d \div g) < b.n * (a.d \div g)

RatMax(a, b) == IF RatLess(a, b) THEN b ELSE a

\* math.floor and math.ceil of a float, as integers
RatFloor(a) == FloorDiv(a.n, a.d)
RatCeil(a) == -FloorDiv(-a.n, a.d)

\* Python's a // b on floats (b > 0): the floor of the quotient, as a float
RatFloorDiv(a, b) == FromInt(RatFloor(RatDiv(a, b)))

\* Python's a % b on floats (b > 0)
RatMod(a, b) == RatSub(a, RatMul(RatFloorDiv(a, b), b))

\* Python 3 round(x): to the nearest integer, a tie goes to the even one
PyRound(a) ==
    LET f == RatFloor(a)
        twice == 2 * (a.n - f * a.d)
    IN  IF twice < a.d THEN f
        ELSE IF twice > a.d THEN f + 1
        ELSE IF f % 2 = 0 THEN f ELSE f + 1

(***************************************************************************)
(* Text.                                                                   *)
(***************************************************************************)
Digits == <<"0", "1", "2", "3", "4", "5", "6", "7", "8", "9">>
UpperCase == <<"A", "B", "C", "D", "E", "F", "G", "H", "I", "J", "K", "L", "M",
               "N", "O", "P", "Q", "R", "S", "T", "U", "V", "W", "X", "Y", "Z">>
LowerCase == <<"a", "b", "c", "d", "e", "f", "g", "h", "i", "j", "k", "l", "m",
               "n", "o", "p", "q", "r", "s", "t", "u", "v", "w", "x", "y", "z">>
WhiteSpace == {" ", "\t"}

IsDigit(c) == \E i \in 1..10 : Digits[i] = c
DigitVal(c) == (CHOOSE i \in 1..10 : Digits[i] = c) - 1

\* str.lower() on one character
Lower(c) ==
    IF \E i \in 1..26 : UpperCase[i] = c
    THEN LowerCase[CHOOSE i \in 1..26 : UpperCase[i] = c]
    ELSE c

\* str.lower()
LowerText(s) == [i \in 1..Len(s) |-> Lower(s[i])]

\* str.endswith(suffix)
EndsWith(s, suffix) ==
    /\ Len(s) >= Len(suffix)
    /\ SubSeq(s, Len(s) - Len(suffix) + 1, Len(s)) = suffix

\* s[:-2]
DropLast2(s) == SubSeq(s, 1, Len(s) - 2)

\* str.strip(): white space is removed from both ends only
RECURSIVE LStrip(_)
LStrip(s) ==
    IF s # <<>> /\ Head(s) \in WhiteSpace THEN LStrip(Tail(s)) ELSE s

RECURSIVE RStrip(_)
RStrip(s) ==
    IF s # <<>> /\ s[Len(s)] \in WhiteSpace
    THEN RStrip(SubSeq(s, 1, Len(s) - 1))
    ELSE s

\* mutant: white space is removed everywhere, as normalize_value does
Strip_everywhere(s) == SelectSeq(s, LAMBDA c : c \notin WhiteSpace)

Strip(s) == RStrip(LStrip(s))

\* str(i) for an integer i
RECURSIVE IntToStr(_)
IntToStr(i) ==
    IF i < 0 THEN <<"-">> \o IntToStr(-i)
    ELSE IF i < 10 THEN <<Digits[i + 1]>>
    ELSE IntToStr(i \div 10) \o <<Digits[(i % 10) + 1]>>

\* The value of a run of decimal digits, most significant first
RECURSIVE DigitsValue(_)
DigitsValue(s) ==
    IF s = <<>> THEN 0
    ELSE 10 * DigitsValue(SubSeq(s, 1, Len(s) - 1)) + DigitVal(s[Len(s)])

RECURSIVE Pow10(_)
Pow10(k) == IF k = 0 THEN 1 ELSE 10 * Pow10(k - 1)

\* float(s) for text made of letters, digits and points: a decimal numeral
\* with at least one digit and at most one point is accepted, anything else
\* raises ValueError.
PyFloat(s) ==
    LET points == {i \in 1..Len(s) : s[i] = "."}
        wellFormed ==
            /\ \A i \in 1..Len(s) : IsDigit(s[i]) \/ s[i] = "."
            /\ \E i \in 1..Len(s) : IsDigit(s[i])
            /\ Cardinality(points) <= 1
    IN  IF ~wellFormed THEN [error |-> "ValueError", value |-> Unbound]
        ELSE IF points = {}
        THEN [error |-> "", value |-> FromInt(DigitsValue(s))]
        ELSE LET p == CHOOSE i \in points : TRUE
                 whole == SubSeq(s, 1, p - 1)
                 frac == SubSeq(s, p + 1, Len(s))
             IN  [error |-> "",
                  value |-> Rat(DigitsValue(whole) * Pow10(Len(frac))
                                + DigitsValue(frac), Pow10(Len(frac)))]

(***************************************************************************)
(* The unit converter.                                                     *)
(***************************************************************************)
\* normalize_value: sub('[ \t]', '', value).lower()
normalize_value(value) ==
    LowerText(SelectSeq(value, LAMBDA c : c \notin WhiteSpace))

K1024 == FromInt(1024)

\* float(text) * 1024 * ... * 1024 with k factors; ValueError propagates
RECURSIVE Times1024(_, _)
Times1024(f, k) ==
    IF f.error # "" \/ k = 0 THEN f
    ELSE Times1024([error |-> "", value |-> RatMul(f.value, K1024)], k - 1)

\* mutant: text without a unit is taken as kilobytes
value_in_kilobytes_default_kb(value) ==
    IF EndsWith(value, <<"k", "b">>)
    THEN Times1024(PyFloat(DropLast2(value)), 0)
    ELSE IF EndsWith(value, <<"m", "b">>)
    THEN Times1024(PyFloat(DropLast2(value)), 1)
    ELSE IF EndsWith(value, <<"g", "b">>)
    THEN Times1024(PyFloat(DropLast2(value)), 2)
    ELSE IF EndsWith(value, <<"t", "b">>)
    THEN Times1024(PyFloat(DropLast2(value)), 3)
    ELSE Times1024(PyFloat(value), 0)

\* value_in_kilobytes: the text has been normalised; the first matching
\* suffix decides the multiplier, no suffix means gigabytes.  A numeral that
\* float() rejects raises ValueError.
value_in_kilobytes(value) ==
    IF EndsWith(value, <<"k", "b">>)
    THEN Times1024(PyFloat(DropLast2(value)), 0)
    ELSE IF EndsWith(value, <<"m", "b">>)
    THEN Times1024(PyFloat(DropLast2(value)), 1)
    ELSE IF EndsWith(value, <<"g", "b">>)
    THEN Times1024(PyFloat(DropLast2(value)), 2)
    ELSE IF EndsWith(value, <<"t", "b">>)
    THEN Times1024(PyFloat(DropLast2(value)), 3)
    ELSE Times1024(PyFloat(value), 2)

\* "not value % 1024"
Divisible(value) == RatMod(value, K1024) = FromInt(0)

\* ''.join((str(int(round(value))), units))
Join(value, units) == IntToStr(PyRound(value)) \o units

\* mutant: the innermost promotion (GB to TB) is missing
normalize_memory_units_no_tb(value, floor_to_mb) ==
    IF Divisible(value)
    THEN LET v1 == RatDiv(value, K1024)
         IN  IF Divisible(v1)
             THEN Join(RatDiv(v1, K1024), <<"G", "B">>)
             ELSE Join(v1, <<"M", "B">>)
    ELSE IF floor_to_mb
    THEN Join(RatDiv(RatMul(RatFloorDiv(value, K1024), K1024), K1024),
              <<"M", "B">>)
    ELSE Join(value, <<"k", "B">>)

\* mutant: the flooring branch uses "/" where the code has "//"
normalize_memory_units_true_div(value, floor_to_mb) ==
    IF Divisible(value)
    THEN LET v1 == RatDiv(value, K1024)
         IN  IF Divisible(v1)
             THEN LET v2 == RatDiv(v1, K1024)
                  IN  IF Divisible(v2)
                      THEN Join(RatDiv(v2, K1024), <<"T", "B">>)
                      ELSE Join(v2, <<"G", "B">>)
             ELSE Join(v1, <<"M", "B">>)
    ELSE IF floor_to_mb
    THEN Join(RatDiv(RatMul(RatDiv(value, K1024), K1024), K1024),
              <<"M", "B">>)
    ELSE Join(value, <<"k", "B">>)

\* normalize_memory_units
normalize_memory_units(value, floor_to_mb) ==
    IF Divisible(value)
    THEN LET v1 == RatDiv(value, K1024)
         IN  IF Divisible(v1)
             THEN LET v2 == RatDiv(v1, K1024)
                  IN  IF Divisible(v2)
                      THEN Join(RatDiv(v2, K1024), <<"T", "B">>)
                      ELSE Join(v2, <<"G", "B">>)
             ELSE Join(v1, <<"M", "B">>)
    ELSE IF floor_to_mb
    THEN Join(RatDiv(RatMul(RatFloorDiv(value, K1024), K1024), K1024),
              <<"M", "B">>)
    ELSE Join(value, <<"k", "B">>)

(***************************************************************************)
(* The script is not running: the state of the interpreter before the      *)
(* module is executed, used while a converter function is applied alone.   *)
(***************************************************************************)
NotStarted ==
    /\ memory = <<"1", "G", "B">>
    /\ cpus = 2
    /\ connections = 100
    /\ databases = 1
    /\ version = <<"9", ".", "1">>
    /\ pc = "not_started"
    /\ OPERATING_MEMORY = Unbound
    /\ SHARED_BUFFERS = Unbound
    /\ AUTOVACUUM_WORKERS = 0
    /\ stdout = <<>>
    /\ status = -1

(***************************************************************************)
(* Normalize applied to one memory text                                    *)
(* (value_in_kilobytes(normalize_value(text)), as line 172 applies it).    *)
(* The text is assembled from a numeral whole[.frac], a unit in some       *)
(* letter case and white space put at some position.                       *)
(***************************************************************************)
\* largest integer of the model checker, 2^31 - 1
IntLimit == (1024 * 1024 * 1024 - 1) + 1024 * 1024 * 1024

FracForms == {<<>>, <<".">>} \cup {<<".", Digits[i]>> : i \in 1..10}

UnitForms ==
    {<<>>} \cup {<<a, b>> : a \in {"k", "K", "m", "M", "g", "G", "t", "T"},
                            b \in {"b", "B"}}

Gaps == {<<>>, <<" ">>, <<"\t">>}

\* s with gap inserted after its first pos characters
InsertAt(s, pos, gap) == SubSeq(s, 1, pos) \o gap \o SubSeq(s, pos + 1, Len(s))

\* numerator and denominator of the numeral whole[.frac]
NumeralNum(whole, frac) ==
    IF Len(frac) = 2 THEN 10 * whole + DigitVal(frac[2]) ELSE whole
NumeralDen(frac) == IF Len(frac) = 2 THEN 10 ELSE 1

\* the multiplier the documentation gives for a unit (no unit: gigabytes)
Multiplier(unit) ==
    LET u == IF unit = <<>> THEN "g" ELSE Lower(unit[1])
    IN  IF u = "k" THEN 1
        ELSE IF u = "m" THEN 1024
        ELSE IF u = "g" THEN 1024 * 1024
        ELSE 1024 * 1024 * 1024

NormalizeArgs ==
    {[whole |-> w, frac |-> f, unit |-> u,
      text |-> InsertAt(IntToStr(w) \o f \o u, p, g)] :
        <<w, f, u, p, g>> \in
            {t \in (0..MaxIntPart) \X FracForms \X UnitForms
                    \X (0..(Len(IntToStr(MaxIntPart)) + 4)) \X Gaps :
                /\ t[4] <= Len(IntToStr(t[1]) \o t[2] \o t[3])
                /\ NumeralNum(t[1], t[2]) <= IntLimit \div Multiplier(t[3])}}

InitNormalize ==
    /\ NotStarted
    /\ call = "Normalize"
    /\ arg \in NormalizeArgs
    /\ ret = <<>>

NormalizeCall ==
    /\ call = "Normalize"
    /\ ret' = value_in_kilobytes(normalize_value(arg.text))
    /\ call' = "Normalized"
    /\ UNCHANGED <<arg, runVars>>

NextNormalize == NormalizeCall

SpecNormalize == InitNormalize /\ [][NextNormalize]_vars

(***************************************************************************)
(* Denormalize (normalize_memory_units) applied to one value.              *)
(***************************************************************************)
RECURSIVE Pow1024(_)
Pow1024(e) == IF e = 0 THEN 1 ELSE 1024 * Pow1024(e - 1)

Remainders ==
    (0..MaxRemainder) \cup {1023 - k : k \in 0..MaxRemainder} \cup {476}

\* the values a * 1024^e + r and their halves, up to 1 TB
DenormalizeValues ==
    {Rat(t[1] * Pow1024(t[2]) + t[3], t[4]) :
        t \in {u \in (0..MaxCoef) \X (0..3) \X Remainders \X {1, 2} :
                  u[1] <= Pow1024(3) \div Pow1024(u[2])}}

InitDenormalize ==
    /\ NotStarted
    /\ call = "Denormalize"
    /\ arg \in [value : DenormalizeValues, floor_to_mb : BOOLEAN]
    /\ ret = <<>>

DenormalizeCall ==
    /\ call = "Denormalize"
    /\ ret' = normalize_memory_units(arg.value, arg.floor_to_mb)
    /\ call' = "Denormalized"
    /\ UNCHANGED <<arg, runVars>>

NextDenormalize == DenormalizeCall

SpecDenormalize == InitDenormalize /\ [][NextDenormalize]_vars

(***************************************************************************)
(* The script.                                                             *)
(***************************************************************************)
\* WAL_SEGMENT_SIZE = 16.0 * 1024
WAL_SEGMENT_SIZE == FromInt(16 * 1024)

\* default of --connections
DefaultConnections == 100

\* k characters of white space, blanks and tabs in turn
Pad(k) == [i \in 1..k |-> IF i % 2 = 1 THEN " " ELSE "\t"]

\* -v: 9.1, another version and 9.1 with a blank inside, each with up to
\* MaxPad characters of white space on either side
Versions ==
    {Pad(l) \o core \o Pad(r) :
        l \in 0..MaxPad, r \in 0..MaxPad,
        core \in {<<"9", ".", "1">>, <<"9", ".", "5">>, <<"9", " ", ".", "1">>}}

\* -m: a numeral, possibly a blank, possibly a unit.  The empty numeral, a
\* numeral with two points and the unit "B" are texts float() rejects.
MemoryNumerals ==
    {IntToStr(n) : n \in 0..MaxMemory}
        \cup {<<>>, <<"1", ".", "5">>, <<"1", ".", "2", ".", "3">>}

MemoryUnits == {<<>>, <<"k", "B">>, <<"M", "B">>, <<"G", "B">>, <<"B">>}

MemoryArgs ==
    {num \o gap \o unit :
        num \in MemoryNumerals, gap \in {<<>>, <<" ">>}, unit \in MemoryUnits}

\* one print(): a block of six annotation lines, a "key = value" line or a
\* line of the version message
Annotation(key, note) == [kind |-> "annotation", key |-> key, value |-> note]
Setting(key, value) == [kind |-> "setting", key |-> key, value |-> value]
Message(key) == [kind |-> "message", key |-> key, value |-> <<>>]

\* ARGUMENTS = PARSER.parse_args() and the five module-level bindings
Init ==
    /\ memory \in MemoryArgs
    /\ cpus \in 0..MaxCpus
    /\ connections \in (0..MaxConnections) \cup {DefaultConnections}
    /\ databases \in 0..MaxDatabases
    /\ version \in Versions
    /\ pc = "version_check"
    /\ OPERATING_MEMORY = Unbound
    /\ SHARED_BUFFERS = Unbound
    /\ AUTOVACUUM_WORKERS = 0
    /\ stdout = <<>>
    /\ status = -1
    /\ call = "none"
    /\ arg = <<>>
    /\ ret = <<>>

\* the statement at pc ran to its end; the interpreter moves on
Goto(next) ==
    /\ pc' = next
    /\ UNCHANGED <<memory, cpus, connections, databases, version, status,
                   call, arg, ret>>

\* an uncaught exception: the traceback goes to stderr, the status is 1
Raise ==
    /\ pc' = "aborted"
    /\ status' = 1
    /\ UNCHANGED <<memory, cpus, connections, databases, version,
                   call, arg, ret>>

\* if POSTGRESQL_VERSION.strip() != '9.1': print, print, exit(1)
VersionCheck ==
    /\ pc = "version_check"
    /\ IF Strip(version) # <<"9", ".", "1">>
       THEN /\ stdout' = stdout \o <<Message("unsupported"), Message("exiting")>>
            /\ pc' = "exited"
            /\ status' = 1
            /\ UNCHANGED <<memory, cpus, connections, databases, version,
                           call, arg, ret>>
       ELSE /\ Goto("parse_memory")
            /\ UNCHANGED stdout
    /\ UNCHANGED <<OPERATING_MEMORY, SHARED_BUFFERS, AUTOVACUUM_WORKERS>>

\* OPERATING_MEMORY = value_in_kilobytes(normalize_value(OPERATING_MEMORY))
ParseMemory ==
    /\ pc = "parse_memory"
    /\ LET f == value_in_kilobytes(normalize_value(memory))
       IN  IF f.error # ""
           THEN Raise /\ UNCHANGED OPERATING_MEMORY
           ELSE Goto("shared_buffers") /\ OPERATING_MEMORY' = f.value
    /\ UNCHANGED <<SHARED_BUFFERS, AUTOVACUUM_WORKERS, stdout>>

\* OPERATING_MEMORY / 4
SharedBuffersValue(M) == RatDiv(M, FromInt(4))

EmitSharedBuffers ==
    /\ pc = "shared_buffers"
    /\ SHARED_BUFFERS' = SharedBuffersValue(OPERATING_MEMORY)
    /\ stdout' = stdout \o
         <<Annotation("shared_buffers", <<>>),
           Setting("shared_buffers",
                   normalize_memory_units(SHARED_BUFFERS', TRUE))>>
    /\ Goto("work_mem")
    /\ UNCHANGED <<OPERATING_MEMORY, AUTOVACUUM_WORKERS>>

\* mutant: the shared pool is not taken off the budget
WorkMemValue_no_shared(M, SB, C) ==
    RatDiv(RatSub(M, RatMul(RatDiv(M, FromInt(100)), FromInt(5))), FromInt(C))

\* mutant: the maintenance share is not taken off the budget
WorkMemValue_no_maintenance(M, SB, C) ==
    RatDiv(RatSub(M, SB), FromInt(C))

\* (OPERATING_MEMORY - SHARED_BUFFERS - (OPERATING_MEMORY / 100 * 5))
\*     / CONNECTION_COUNT
WorkMemValue(M, SB, C) ==
    RatDiv(RatSub(RatSub(M, SB),
                  RatMul(RatDiv(M, FromInt(100)), FromInt(5))),
           FromInt(C))

\* The annotation is printed before the argument of the second print() is
\* evaluated; with no connections the division raises ZeroDivisionError.
EmitWorkMem ==
    /\ pc = "work_mem"
    /\ IF connections = 0
       THEN /\ stdout' = stdout \o <<Annotation("work_mem", <<>>)>>
            /\ Raise
       ELSE /\ stdout' = stdout \o
                 <<Annotation("work_mem", <<>>),
                   Setting("work_mem",
                           normalize_memory_units(
                               WorkMemValue(OPERATING_MEMORY, SHARED_BUFFERS,
                                            connections), TRUE))>>
            /\ Goto("wal_buffers")
    /\ UNCHANGED <<OPERATING_MEMORY, SHARED_BUFFERS, AUTOVACUUM_WORKERS>>

\* mutant: the multiple of the segment size is rounded up
WalBuffersValue_ceil(SB) ==
    RatMax(RatMul(FromInt(RatCeil(RatDiv(
                      RatMul(RatDiv(SB, FromInt(100)), FromInt(3)),
                      WAL_SEGMENT_SIZE))),
                  WAL_SEGMENT_SIZE),
           WAL_SEGMENT_SIZE)

\* mutant: the minimum of one segment is not applied
WalBuffersValue_no_max(SB) ==
    RatMul(RatFloorDiv(RatMul(RatDiv(SB, FromInt(100)), FromInt(3)),
                       WAL_SEGMENT_SIZE),
           WAL_SEGMENT_SIZE)

\* max((SHARED_BUFFERS / 100) * 3 // WAL_SEGMENT_SIZE * WAL_SEGMENT_SIZE,
\*     WAL_SEGMENT_SIZE)
WalBuffersValue(SB) ==
    RatMax(RatMul(RatFloorDiv(RatMul(RatDiv(SB, FromInt(100)), FromInt(3)),
                              WAL_SEGMENT_SIZE),
                  WAL_SEGMENT_SIZE),
           WAL_SEGMENT_SIZE)

\* The annotation quotes the segment size, rendered without flooring.
EmitWalBuffers ==
    /\ pc = "wal_buffers"
    /\ stdout' = stdout \o
         <<Annotation("wal_buffers",
                      normalize_memory_units(WAL_SEGMENT_SIZE, FALSE)),
           Setting("wal_buffers",
                   normalize_memory_units(WalBuffersValue(SHARED_BUFFERS),
                                          FALSE))>>
    /\ Goto("checkpoint_segments")
    /\ UNCHANGED <<OPERATING_MEMORY, SHARED_BUFFERS, AUTOVACUUM_WORKERS>>

EmitCheckpointSegments ==
    /\ pc = "checkpoint_segments"
    /\ stdout' = stdout \o
         <<Annotation("checkpoint_segments", <<>>),
           Setting("checkpoint_segments", <<"1", "2", "0">>)>>
    /\ Goto("checkpoint_timeout")
    /\ UNCHANGED <<OPERATING_MEMORY, SHARED_BUFFERS, AUTOVACUUM_WORKERS>>

EmitCheckpointTimeout ==
    /\ pc = "checkpoint_timeout"
    /\ stdout' = stdout \o
         <<Annotation("checkpoint_timeout", <<>>),
           Setting("checkpoint_timeout", <<"1", "h">>)>>
    /\ Goto("autovacuum_max_workers")
    /\ UNCHANGED <<OPERATING_MEMORY, SHARED_BUFFERS, AUTOVACUUM_WORKERS>>

\* AUTOVACUUM_WORKERS = CPU_COUNT
EmitAutovacuumMaxWorkers ==
    /\ pc = "autovacuum_max_workers"
    /\ AUTOVACUUM_WORKERS' = cpus
    /\ stdout' = stdout \o
         <<Annotation("autovacuum_max_workers", <<>>),
           Setting("autovacuum_max_workers", IntToStr(AUTOVACUUM_WORKERS'))>>
    /\ Goto("maintenance_work_mem")
    /\ UNCHANGED <<OPERATING_MEMORY, SHARED_BUFFERS>>

\* OPERATING_MEMORY / 100 * 5 / AUTOVACUUM_WORKERS
MaintenanceWorkMemValue(M, W) ==
    RatDiv(RatMul(RatDiv(M, FromInt(100)), FromInt(5)), FromInt(W))

\* With no CPU the division raises ZeroDivisionError after the annotation.
EmitMaintenanceWorkMem ==
    /\ pc = "maintenance_work_mem"
    /\ IF AUTOVACUUM_WORKERS = 0
       THEN /\ stdout' = stdout \o <<Annotation("maintenance_work_mem", <<>>)>>
            /\ Raise
       ELSE /\ stdout' = stdout \o
                 <<Annotation("maintenance_work_mem", <<>>),
                   Setting("maintenance_work_mem",
                           normalize_memory_units(
                               MaintenanceWorkMemValue(OPERATING_MEMORY,
                                                       AUTOVACUUM_WORKERS),
                               TRUE))>>
            /\ Goto("effective_cache_size")
    /\ UNCHANGED <<OPERATING_MEMORY, SHARED_BUFFERS, AUTOVACUUM_WORKERS>>

\* OPERATING_MEMORY / 100 * 70
EffectiveCacheSizeValue(M) == RatMul(RatDiv(M, FromInt(100)), FromInt(70))

EmitEffectiveCacheSize ==
    /\ pc = "effective_cache_size"
    /\ stdout' = stdout \o
         <<Annotation("effective_cache_size", <<>>),
           Setting("effective_cache_size",
                   normalize_memory_units(
                       EffectiveCacheSizeValue(OPERATING_MEMORY), TRUE))>>
    /\ Goto("autovacuum_naptime")
    /\ UNCHANGED <<OPERATING_MEMORY, SHARED_BUFFERS, AUTOVACUUM_WORKERS>>

\* mutant: integer division, as "/" divides two ints under Python 2
NaptimeValue_int_div(D, W) ==
    LET n == ((D \div 5) * 2) \div W
    IN  IF n > 1 THEN n ELSE 1

\* max(int(ceil(DATABASE_COUNT / 5 * 2 / AUTOVACUUM_WORKERS)), 1)
NaptimeValue(D, W) ==
    LET n == RatCeil(RatDiv(RatMul(RatDiv(FromInt(D), FromInt(5)), FromInt(2)),
                            FromInt(W)))
    IN  IF n > 1 THEN n ELSE 1

\* AUTOVACUUM_WORKERS is not 0 here: with no CPU the run has ended at
\* maintenance_work_mem.
EmitAutovacuumNaptime ==
    /\ pc = "autovacuum_naptime"
    /\ stdout' = stdout \o
         <<Annotation("autovacuum_naptime", <<>>),
           Setting("autovacuum_naptime",
                   IntToStr(NaptimeValue(databases, AUTOVACUUM_WORKERS))
                       \o <<"m", "i", "n">>)>>
    /\ Goto("checkpoint_completion_target")
    /\ UNCHANGED <<OPERATING_MEMORY, SHARED_BUFFERS, AUTOVACUUM_WORKERS>>

EmitCheckpointCompletionTarget ==
    /\ pc = "checkpoint_completion_target"
    /\ stdout' = stdout \o
         <<Annotation("checkpoint_completion_target", <<>>),
           Setting("checkpoint_completion_target", <<"0", ".", "9">>)>>
    /\ Goto("random_page_cost")
    /\ UNCHANGED <<OPERATING_MEMORY, SHARED_BUFFERS, AUTOVACUUM_WORKERS>>

\* the last statement; the interpreter then exits with status 0
EmitRandomPageCost ==
    /\ pc = "random_page_cost"
    /\ stdout' = stdout \o
         <<Annotation("random_page_cost", <<>>),
           Setting("random_page_cost", <<"2", ".", "0">>)>>
    /\ pc' = "done"
    /\ status' = 0
    /\ UNCHANGED <<memory, cpus, connections, databases, version,
                   OPERATING_MEMORY, SHARED_BUFFERS, AUTOVACUUM_WORKERS,
                   call, arg, ret>>

Next ==
    \/ VersionCheck
    \/ ParseMemory
    \/ EmitSharedBuffers
    \/ EmitWorkMem
    \/ EmitWalBuffers
    \/ EmitCheckpointSegments
    \/ EmitCheckpointTimeout
    \/ EmitAutovacuumMaxWorkers
    \/ EmitMaintenanceWorkMem
    \/ EmitEffectiveCacheSize
    \/ EmitAutovacuumNaptime
    \/ EmitCheckpointCompletionTarget
    \/ EmitRandomPageCost

Spec == Init /\ [][Next]_vars

(***************************************************************************)
(* C1.  Normalize of a decimal numeral n with optional embedded spaces or  *)
(* tabs and an optional unit in any letter case is n times the multiplier  *)
(* of the unit (kb 1, mb 1024, gb 1024^2, tb 1024^3), in kB; text without  *)
(* a unit gives what the same text followed by GB gives.                   *)
(***************************************************************************)
C1_NormalizeMultiplies ==
    call = "Normalized" =>
        /\ ret.error = ""
        /\ ret.value = Rat(NumeralNum(arg.whole, arg.frac)
                             * Multiplier(arg.unit), NumeralDen(arg.frac))
        /\ arg.unit = <<>> =>
              ret = value_in_kilobytes(normalize_value(arg.text \o <<"G", "B">>))

C1_Witness ==
    /\ call = "Normalized"
    /\ arg.text = <<"1", ".", "5", "\t", "M", "b">>
    /\ ret.value = FromInt(1536)

(***************************************************************************)
(* C3.  Without the flooring flag, Denormalize of a non-negative integer   *)
(* kB value divides by 1024 and promotes kB, MB, GB, TB as long as the     *)
(* current value is divisible by 1024, and prints the integer reached      *)
(* followed by the unit reached; 1024 gives 1MB, 1024*1024 gives 1GB and   *)
(* 1023 gives 1023kB.                                                      *)
(***************************************************************************)
UnitLabels == <<<<"k", "B">>, <<"M", "B">>, <<"G", "B">>, <<"T", "B">>>>

\* number of promotions: the largest j <= 3 with 1024^j dividing v
Promotions(v) ==
    CHOOSE j \in 0..3 :
        /\ v % Pow1024(j) = 0
        /\ j < 3 => v % Pow1024(j + 1) # 0

C3_DenormalizePromotes ==
    (call = "Denormalized" /\ ~arg.floor_to_mb /\ arg.value.d = 1) =>
        LET v == arg.value.n
            j == Promotions(v)
        IN  /\ ret = IntToStr(v \div Pow1024(j)) \o UnitLabels[j + 1]
            /\ v = 1024 => ret = <<"1", "M", "B">>
            /\ v = 1024 * 1024 => ret = <<"1", "G", "B">>
            /\ v = 1023 => ret = <<"1", "0", "2", "3", "k", "B">>

C3_Witness ==
    /\ call = "Denormalized"
    /\ ~arg.floor_to_mb
    /\ arg.value = FromInt(1024 * 1024 * 1024)
    /\ ret = <<"1", "T", "B">>

(***************************************************************************)
(* C4.  With the flooring flag, Denormalize of a non-negative kB value     *)
(* that is not divisible by 1024 is floor(v / 1024) followed by MB         *)
(* (1500 gives 1MB), and no value is reported in kB when the flag is set.  *)
(***************************************************************************)
C4_DenormalizeFloors ==
    (call = "Denormalized" /\ arg.floor_to_mb) =>
        /\ ~EndsWith(ret, <<"k", "B">>)
        /\ ~(arg.value.d = 1 /\ arg.value.n % 1024 = 0) =>
              ret = IntToStr(arg.value.n \div (arg.value.d * 1024))
                      \o <<"M", "B">>
        /\ arg.value = FromInt(1500) => ret = <<"1", "M", "B">>

C4_Witness ==
    /\ call = "Denormalized"
    /\ arg.floor_to_mb
    /\ arg.value = FromInt(1500)
    /\ ret = <<"1", "M", "B">>

(***************************************************************************)
(* Reading the output of a run.                                            *)
(***************************************************************************)
HasSetting(key) ==
    \E i \in 1..Len(stdout) : stdout[i].kind = "setting" /\ stdout[i].key = key

\* the text printed after "key = "
SettingText(key) ==
    stdout[CHOOSE i \in 1..Len(stdout) :
               stdout[i].kind = "setting" /\ stdout[i].key = key].value

\* the kB a printed memory text stands for (always whole)
DisplayKb(text) == value_in_kilobytes(normalize_value(text)).value.n

SettingKb(key) == DisplayKb(SettingText(key))

Parameters ==
    {"shared_buffers", "work_mem", "wal_buffers", "checkpoint_segments",
     "checkpoint_timeout", "autovacuum_max_workers", "maintenance_work_mem",
     "effective_cache_size", "autovacuum_naptime",
     "checkpoint_completion_target", "random_page_cost"}

NoParameterOutput == \A i \in 1..Len(stdout) : stdout[i].kind = "message"

AllBlocksEmitted ==
    \A key \in Parameters :
        /\ HasSetting(key)
        /\ \E i \in 1..Len(stdout) :
              stdout[i].kind = "annotation" /\ stdout[i].key = key

\* the version text is 9.1 with nothing but white space around it
IsPadded91(v) ==
    \E i \in 0..(Len(v) - 3) :
        /\ SubSeq(v, i + 1, i + 3) = <<"9", ".", "1">>
        /\ \A j \in (1..i) \cup ((i + 4)..Len(v)) : v[j] \in WhiteSpace

Rejected ==
    /\ pc = "exited"
    /\ status = 1
    /\ stdout = <<Message("unsupported"), Message("exiting")>>

(***************************************************************************)
(* C2, as stated.  For every version argument other than 9.1 the run       *)
(* prints the message and ends with status 1, and no annotation line and   *)
(* no key = value line is ever printed in that run.                        *)
(***************************************************************************)
C2_AsStated ==
    version # <<"9", ".", "1">> =>
        /\ NoParameterOutput
        /\ pc # "version_check" => Rejected

(***************************************************************************)
(* C2, amended.  For every version argument that is not 9.1 once leading   *)
(* and trailing white space is removed, the run prints the message and     *)
(* ends with status 1, and no annotation line and no key = value line is   *)
(* ever printed in that run.                                               *)
(***************************************************************************)
C2_VersionCheckFirst ==
    ~IsPadded91(version) =>
        /\ NoParameterOutput
        /\ pc # "version_check" => Rejected

C2_Witness ==
    /\ version = <<"9", ".", "5">>
    /\ Rejected

(***************************************************************************)
(* The write-ahead-log buffer.  With M = n/d kB the shared pool is M / 4   *)
(* and 3% of it is 3n / (400 d).                                           *)
(***************************************************************************)
SegmentKb == 16 * 1024

\* whole segments in 3% of the shared pool, rounded down and rounded up
SegmentsBelow ==
    (3 * OPERATING_MEMORY.n) \div (400 * OPERATING_MEMORY.d * SegmentKb)
SegmentsAbove ==
    -((-(3 * OPERATING_MEMORY.n)) \div (400 * OPERATING_MEMORY.d * SegmentKb))

MaxInt(a, b) == IF a > b THEN a ELSE b

(***************************************************************************)
(* C5, as stated.  The wal_buffers value printed is 3% of the shared pool  *)
(* rounded up to a multiple of the segment size (16384 kB), and at least   *)
(* one segment.                                                            *)
(***************************************************************************)
C5_AsStated ==
    HasSetting("wal_buffers") =>
        SettingKb("wal_buffers") = MaxInt(SegmentsAbove * SegmentKb, SegmentKb)

(***************************************************************************)
(* C5, amended.  The wal_buffers value printed is 3% of the shared pool    *)
(* rounded down to a multiple of the segment size (16384 kB), and at       *)
(* least one segment.                                                      *)
(***************************************************************************)
C5_WalRoundsDown ==
    HasSetting("wal_buffers") =>
        SettingKb("wal_buffers") = MaxInt(SegmentsBelow * SegmentKb, SegmentKb)

C5_Witness ==
    /\ HasSetting("wal_buffers")
    /\ OPERATING_MEMORY = FromInt(5 * 1024 * 1024)
    /\ SegmentsBelow = 2
    /\ SegmentsAbove = 3
    /\ SettingText("wal_buffers") = <<"3", "2", "M", "B">>

(***************************************************************************)
(* C9.  The wal_buffers value printed is a positive whole multiple of      *)
(* 16384 kB, printed exactly: 3% of the shared pool is first reduced to    *)
(* the multiple of the segment size at or below it and only then raised    *)
(* to one segment, so a shared pool of 262144 kB gives 16MB.               *)
(***************************************************************************)
C9_WalFloorsThenRaises ==
    HasSetting("wal_buffers") =>
        LET v == SettingKb("wal_buffers")
            n == OPERATING_MEMORY.n
            d == OPERATING_MEMORY.d
        IN  /\ v > 0
            /\ v % SegmentKb = 0
            /\ 3 * n < SegmentKb * 400 * d => v = SegmentKb
            /\ 3 * n >= SegmentKb * 400 * d =>
                  /\ v * 400 * d <= 3 * n
                  /\ 3 * n < (v + SegmentKb) * 400 * d
            /\ SHARED_BUFFERS = FromInt(262144) =>
                  SettingText("wal_buffers") = <<"1", "6", "M", "B">>

C9_Witness ==
    /\ HasSetting("wal_buffers")
    /\ SHARED_BUFFERS = FromInt(262144)
    /\ SegmentsBelow = 0
    /\ SettingText("wal_buffers") = <<"1", "6", "M", "B">>

(***************************************************************************)
(* C6.  For a connection count C >= 1 the work_mem value printed is the    *)
(* MB-floored rendering of (M - sharedPool - 0.05 M) / C with              *)
(* sharedPool = M / 4; M = 1 GB and C = 100 print shared_buffers = 256MB   *)
(* and work_mem = 7MB.                                                     *)
(***************************************************************************)
C6_WorkMemFormula ==
    HasSetting("work_mem") =>
        LET n == OPERATING_MEMORY.n
            d == OPERATING_MEMORY.d
        IN  /\ connections >= 1
            /\ SHARED_BUFFERS = Rat(n, 4 * d)
            /\ SettingText("work_mem") =
                  normalize_memory_units(
                      Rat(20 * n - 5 * n - n, 20 * d * connections), TRUE)
            /\ (n = 1024 * 1024 /\ d = 1 /\ connections = 100) =>
                  /\ SettingText("shared_buffers") = <<"2", "5", "6", "M", "B">>
                  /\ SettingText("work_mem") = <<"7", "M", "B">>

C6_Witness ==
    /\ HasSetting("work_mem")
    /\ OPERATING_MEMORY = FromInt(1024 * 1024)
    /\ connections = 100
    /\ SettingText("shared_buffers") = <<"2", "5", "6", "M", "B">>
    /\ SettingText("work_mem") = <<"7", "M", "B">>

(***************************************************************************)
(* C7.  No run stops mid-stream: whatever the inputs (a malformed memory   *)
(* text, no connections, no CPU), a run that has ended has printed every   *)
(* parameter block from shared_buffers to random_page_cost or has printed  *)
(* no parameter output at all.                                             *)
(***************************************************************************)
C7_AllOrNothing ==
    pc \in {"done", "exited", "aborted"} =>
        NoParameterOutput \/ AllBlocksEmitted

(***************************************************************************)
(* C8, as stated.  autovacuum_naptime is computed with a ceiling division  *)
(* at each stage of D / 5 * 2 / workerCount and is then raised to 1.       *)
(***************************************************************************)
CeilDiv(a, b) == -((-a) \div b)

C8_AsStated ==
    HasSetting("autovacuum_naptime") =>
        SettingText("autovacuum_naptime") =
            IntToStr(MaxInt(CeilDiv(CeilDiv(databases, 5) * 2,
                                    AUTOVACUUM_WORKERS), 1))
                \o <<"m", "i", "n">>

(***************************************************************************)
(* C8, amended.  For D >= 0 and a worker count >= 1, autovacuum_naptime    *)
(* is the exact quotient D / 5 * 2 / workerCount rounded up once, at the   *)
(* end, and then raised to 1: the least whole number of minutes k >= 1     *)
(* with 5 * workerCount * k >= 2 * D (D = 1, workerCount = 2 gives 1).     *)
(***************************************************************************)
C8_NaptimeOneCeiling ==
    HasSetting("autovacuum_naptime") =>
        LET k == CHOOSE m \in 1..(2 * databases + 1) :
                    /\ 5 * AUTOVACUUM_WORKERS * m >= 2 * databases
                    /\ m > 1 => 5 * AUTOVACUUM_WORKERS * (m - 1) < 2 * databases
        IN  /\ AUTOVACUUM_WORKERS >= 1
            /\ SettingText("autovacuum_naptime") =
                  IntToStr(k) \o <<"m", "i", "n">>
            /\ (databases = 1 /\ AUTOVACUUM_WORKERS = 2) =>
                  SettingText("autovacuum_naptime") = <<"1", "m", "i", "n">>

C8_Witness ==
    /\ HasSetting("autovacuum_naptime")
    /\ databases = 3
    /\ AUTOVACUUM_WORKERS = 1
    /\ SettingText("autovacuum_naptime") = <<"2", "m", "i", "n">>

(***************************************************************************)
(* C10.  The values printed never over-commit the memory: with C >= 1      *)
(* connections and P >= 1 CPUs,                                            *)
(* shared_buffers + C * work_mem + P * maintenance_work_mem <= M.          *)
(***************************************************************************)
C10_NoOverCommit ==
    HasSetting("maintenance_work_mem") =>
        /\ connections >= 1
        /\ cpus >= 1
        /\ (SettingKb("shared_buffers")
              + connections * SettingKb("work_mem")
              + cpus * SettingKb("maintenance_work_mem")) * OPERATING_MEMORY.d
             <= OPERATING_MEMORY.n

C10_Witness ==
    /\ HasSetting("maintenance_work_mem")
    /\ OPERATING_MEMORY = FromInt(5 * 1024 * 1024)
    /\ connections = 100
    /\ cpus = 2
    /\ SettingText("shared_buffers") = <<"1", "2", "8", "0", "M", "B">>
    /\ SettingText("work_mem") = <<"3", "5", "M", "B">>
    /\ SettingText("maintenance_work_mem") = <<"1", "2", "8", "M", "B">>

====
